---- MODULE Spec2Model ----
(***************************************************************************)
(* Model of src/index.js (GSoC Hunter bot): the poll timer, the scan cycle *)
(* (checkRepos / fetchIssuesForRepo / sendIssueAlert), the system-log      *)
(* helper and the heartbeat, as handlers of one cooperative event loop.    *)
(* One action is one run of the event loop: the code executed between two  *)
(* suspension points (await of a network call) or timer callbacks.         *)
(***************************************************************************)
EXTENDS Integers, Sequences, FiniteSets, TLC

\* ---------------------------------------------------------------- bounds
MaxCycles == 2      \* invocations of checkRepos that are followed
NumTargets == 2     \* entries of the registry that are monitored
NumIds == 3         \* issue identifiers the tracker can return
MaxResp == 2        \* records in one fetch response
MaxBeats == 1       \* heartbeat firings that are followed

\* ------------------------------------------------------ program constants
POLL_INTERVAL == 60000
HEARTBEAT_INTERVAL == 3600000
SEEN_LIMIT == 5000

REGISTRY ==
  << [owner |-> "oaiedu", repo |-> "devops-opensource-agent", labels |-> "none"],
     [owner |-> "oaiedu", repo |-> "assessment-platform-admin", labels |-> "none"],
     [owner |-> "oaiedu", repo |-> "dora-quizz", labels |-> "none"],
     [owner |-> "learningequality", repo |-> "studio", labels |-> "help wanted"],
     [owner |-> "learningequality", repo |-> "kolibri", labels |-> "help wanted"],
     [owner |-> "learningequality", repo |-> "kolibri-design-system", labels |-> "help wanted"] >>

\* The first NumTargets entries of the registry, in registry order.
TARGETS == [t \in 1..NumTargets |-> REGISTRY[((t - 1) % Len(REGISTRY)) + 1]]

Cycles == 1..MaxCycles
IssueIds == 1..NumIds

\* An ISO-8601 timestamp of the tracker: whole seconds and a fraction in ms.
Stamp(s, ms) == [s |-> s, ms |-> ms]

\* A record of the tracker's issue list.  Whether an identifier belongs to a
\* pull request is a fact of the tracker, which numbers issues and pull
\* requests in one sequence: of the identifiers it can return, the even ones
\* are pull requests.  So are its timestamps: issue i was last updated i
\* minutes after its creation.
Issue(i) ==
  [id |-> i, pull_request |-> (i \in IssueIds /\ i % 2 = 0),
   created_at |-> Stamp(0, 0), updated_at |-> Stamp(60 * i, 0)]

\* The identifiers of S, newest (highest) first.
RECURSIVE Newest(_)
Newest(S) ==
  IF S = {} THEN <<>>
  ELSE LET top == CHOOSE x \in S : \A y \in S : y <= x
       IN  << top >> \o Newest(S \ {top})

\* response.data of a successful fetch: at most MaxResp records with pairwise
\* distinct ids.  The request names no sort order, so the tracker returns them
\* in its default order, newest first.
Responses ==
  {[j \in 1..Cardinality(S) |-> Issue(Newest(S)[j])] :
     S \in {T \in SUBSET IssueIds : Cardinality(T) <= MaxResp}}

\* Timestamps around the classification boundary of two minutes.
StampSecs == {0, 119, 120, 595}
StampMillis == {0, 1, 999}
Stamps == {Stamp(s, ms) : s \in StampSecs, ms \in StampMillis}

\* response.data holding one issue of any age.
StampedResponses ==
  { << [id |-> i, pull_request |-> Issue(i).pull_request, created_at |-> c, updated_at |-> u] >> :
      i \in IssueIds, c \in Stamps, u \in Stamps }

\* The rejection of axios.get: no HTTP response at all, or an HTTP status.
FetchErrors ==
  { [response |-> FALSE, status |-> 0],
    [response |-> TRUE, status |-> 404],
    [response |-> TRUE, status |-> 500] }

\* The identifiers of a first response that holds as many new issues as the
\* pruning threshold; none of them is returned again.
OldIds == (NumIds + 1)..(NumIds + SEEN_LIMIT)

VARIABLES
  now,              \* wall clock, ms since module load
  lastChecked,      \* the watermark
  seenIssues,       \* the Seen-Issue Set
  pcBot,            \* startBot: "starting" (awaiting the start message) or "running"
  nextPoll,         \* deadline of the poll timer
  nextBeat,         \* deadline of the heartbeat timer
  started,          \* invocations of checkRepos so far
  beats,            \* heartbeat firings so far
  beatsPending,     \* heartbeat callbacks awaiting their webhook call
  pc,               \* per invocation: "idle", "fetch", "alert", "escalate", "done"
  currentScanTime,  \* per invocation: the captured scan-start time
  target,           \* per invocation: index of the target being processed
  request,          \* per invocation: the GET in flight (<<>> when none)
  newIssues,        \* per invocation: the filtered records of the current target
  cursor,           \* per invocation: position of the for-of loop in newIssues
  lastFetchAt,      \* per target: when its most recent fetch was issued
  fetched,          \* per invocation: the targets whose fetch it has issued, in order
  writes,           \* per invocation: its assignments to lastChecked
  event,            \* what the event loop ran last
  effects           \* what that run logged, posted and requested

vars == << now, lastChecked, seenIssues, pcBot, nextPoll, nextBeat, started,
           beats, beatsPending, pc, currentScanTime, target, request, newIssues,
           cursor, lastFetchAt, fetched, writes, event, effects >>

clockVars == << now >>
timerVars == << nextPoll, nextBeat, started, beats, beatsPending >>
cycleVars == << pc, currentScanTime, target, request, newIssues, cursor, lastFetchAt,
               fetched, writes >>

\* ------------------------------------------------------------- messages
Log(level, msg) == [level |-> level, msg |-> msg]
SystemPost(type) == [kind |-> "system", type |-> type, id |-> 0, target |-> 0]

\* new Date(iso): milliseconds since the epoch.
ParseDate(iso) == iso.s * 1000 + iso.ms

\* Variant of the classification that counts the boundary as brand new.
IsBrandNewInclusive(issue) ==
  ParseDate(issue.updated_at) - ParseDate(issue.created_at) <= 120000

\* isBrandNew of sendIssueAlert.
IsBrandNew(issue) ==
  ParseDate(issue.updated_at) - ParseDate(issue.created_at) < 120000

\* The title marker and the colour of the embed.
AlertTitle(issue) == IF IsBrandNew(issue) THEN "new" ELSE "update"
AlertColor(issue) == IF IsBrandNew(issue) THEN 5763719 ELSE 16776960

\* The webhook call of sendIssueAlert.
IssuePost(issue, t) ==
  [kind |-> "issue", type |-> "ALERT", id |-> issue.id, target |-> t,
   title |-> AlertTitle(issue), color |-> AlertColor(issue)]
Effects(logs, posts, gets) == [logs |-> logs, posts |-> posts, gets |-> gets]
NoEffects == Effects(<<>>, <<>>, <<>>)
Event(type, c, t, status, data) ==
  [type |-> type, cycle |-> c, target |-> t, status |-> status, data |-> data]

\* params of the GET for target t (state, since, and the target's filters).
Params(t, since) ==
  [target |-> t, state |-> "open", since |-> since, labels |-> TARGETS[t].labels]

\* ------------------------------------------------------- pure fragments
\* Variants of the filter that lose one of its two tests.
FilterNewKeepPulls(data, seen) ==
  SelectSeq(data, LAMBDA issue : issue.id \notin seen)

FilterNewKeepSeen(data, seen) ==
  SelectSeq(data, LAMBDA issue : ~issue.pull_request)

\* The filter of fetchIssuesForRepo: no pull requests, nothing already seen.
FilterNew(data, seen) ==
  SelectSeq(data, LAMBDA issue : ~issue.pull_request /\ issue.id \notin seen)

\* Variant of the pruning check that fires at the limit already.
ShouldPruneAtLimit(seen) == Cardinality(seen) >= SEEN_LIMIT

\* The pruning check at the end of a successful target.
ShouldPrune(seen) == Cardinality(seen) > SEEN_LIMIT
PruneMemory(seen) == IF ShouldPrune(seen) THEN {} ELSE seen
PruneLogs(seen) ==
  IF ShouldPrune(seen) THEN << Log("info", "cleared") >> ELSE <<>>

\* Variant of the escalation test without the not-found exemption.
ShouldEscalateAny(error) == error.response

\* The condition of the catch block for escalating to the chat webhook.
ShouldEscalate(error) == error.response /\ error.status # 404

\* Variant that stores the completion time.
NewWatermarkNow(c) == now

\* The value checkRepos stores in lastChecked when its loop is over.
NewWatermark(c) == currentScanTime[c]

\* ------------------------------------------------------ cycle fragments
\* fetchIssuesForRepo(TARGETS[t]) up to its await of axios.get.
IssueFetch(c, t, logs, posts) ==
  /\ pc' = [pc EXCEPT ![c] = "fetch"]
  /\ target' = [target EXCEPT ![c] = t]
  /\ request' = [request EXCEPT ![c] = << Params(t, lastChecked) >>]
  /\ lastFetchAt' = [lastFetchAt EXCEPT ![t] = now]
  /\ fetched' = [fetched EXCEPT ![c] = Append(@, t)]
  /\ newIssues' = [newIssues EXCEPT ![c] = <<>>]
  /\ cursor' = [cursor EXCEPT ![c] = 0]
  /\ effects' = Effects(logs, posts, << Params(t, lastChecked) >>)

\* Variant of the loop that stores the watermark after every target.
ContinueEager(c, logs, posts) ==
  /\ lastChecked' = NewWatermark(c)
  /\ writes' = [writes EXCEPT ![c] = @ + 1]
  /\ IF target[c] < NumTargets
     THEN /\ IssueFetch(c, target[c] + 1, logs, posts)
          /\ UNCHANGED currentScanTime
     ELSE /\ pc' = [pc EXCEPT ![c] = "done"]
          /\ request' = [request EXCEPT ![c] = <<>>]
          /\ newIssues' = [newIssues EXCEPT ![c] = <<>>]
          /\ cursor' = [cursor EXCEPT ![c] = 0]
          /\ effects' = Effects(logs, posts, <<>>)
          /\ UNCHANGED << target, lastFetchAt, fetched, currentScanTime >>

\* fetchIssuesForRepo has returned for target[c]: the for-of loop of checkRepos
\* moves to the next target, or ends and the watermark is stored.
Continue(c, logs, posts) ==
  IF target[c] < NumTargets
  THEN /\ IssueFetch(c, target[c] + 1, logs, posts)
       /\ UNCHANGED << lastChecked, currentScanTime, writes >>
  ELSE /\ pc' = [pc EXCEPT ![c] = "done"]
       /\ lastChecked' = NewWatermark(c)
       /\ writes' = [writes EXCEPT ![c] = @ + 1]
       /\ request' = [request EXCEPT ![c] = <<>>]
       /\ newIssues' = [newIssues EXCEPT ![c] = <<>>]
       /\ cursor' = [cursor EXCEPT ![c] = 0]
       /\ effects' = Effects(logs, posts, <<>>)
       /\ UNCHANGED << target, lastFetchAt, fetched, currentScanTime >>

\* checkRepos() up to its first suspension: log, capture the start time, and
\* issue the fetch of the first target.  `before` is what the caller has
\* logged in the same run of the event loop.
CheckRepos(c, before) ==
  /\ currentScanTime' = [currentScanTime EXCEPT ![c] = now]
  /\ IssueFetch(c, 1, before \o << Log("info", "scan") >>, <<>>)
  /\ UNCHANGED << lastChecked, seenIssues, writes >>

\* ----------------------------------------------------------------- Init
InitCommon ==
  /\ now = 0
  /\ lastChecked = 0
  /\ pcBot = "starting"
  /\ nextPoll = 0
  /\ nextBeat = 0
  /\ started = 0
  /\ beats = 0
  /\ beatsPending = 0
  /\ pc = [c \in Cycles |-> "idle"]
  /\ currentScanTime = [c \in Cycles |-> 0]
  /\ target = [c \in Cycles |-> 0]
  /\ request = [c \in Cycles |-> <<>>]
  /\ newIssues = [c \in Cycles |-> <<>>]
  /\ cursor = [c \in Cycles |-> 0]
  /\ lastFetchAt = [t \in 1..NumTargets |-> 0]
  /\ fetched = [c \in Cycles |-> <<>>]
  /\ writes = [c \in Cycles |-> 0]
  /\ event = Event("load", 0, 0, 0, <<>>)
  /\ effects = Effects(<< Log("info", "start") >>, << SystemPost("SUCCESS") >>, <<>>)

\* Module load: the watermark is the load time, the set is empty, and startBot
\* is suspended on the webhook call of its start message.
Init == InitCommon /\ seenIssues = {}

\* The running process whose first fetch returned SEEN_LIMIT new issues: the
\* first invocation has marked and alerted all of them, the pruning check has
\* kept the set (its size is not above the limit), and the fetch of the
\* second target is in flight.  The start message settled in the millisecond
\* of module load or in the next one; the last alert was delivered or not.
InitAged ==
  \E t0 \in {0, 1}, ok \in BOOLEAN :
    /\ now = t0
    /\ lastChecked = 0
    /\ seenIssues = OldIds
    /\ pcBot = "running"
    /\ nextPoll = t0 + POLL_INTERVAL
    /\ nextBeat = t0 + HEARTBEAT_INTERVAL
    /\ started = 1
    /\ beats = 0
    /\ beatsPending = 0
    /\ pc = [c \in Cycles |-> IF c = 1 THEN "fetch" ELSE "idle"]
    /\ currentScanTime = [c \in Cycles |-> IF c = 1 THEN t0 ELSE 0]
    /\ target = [c \in Cycles |-> IF c = 1 THEN 2 ELSE 0]
    /\ request = [c \in Cycles |-> IF c = 1 THEN << Params(2, 0) >> ELSE <<>>]
    /\ newIssues = [c \in Cycles |-> <<>>]
    /\ cursor = [c \in Cycles |-> 0]
    /\ lastFetchAt = [t \in 1..NumTargets |-> IF t <= 2 THEN t0 ELSE 0]
    /\ fetched = [c \in Cycles |-> IF c = 1 THEN << 1, 2 >> ELSE <<>>]
    /\ writes = [c \in Cycles |-> 0]
    /\ event = Event("alertReturn", 1, 1, IF ok THEN 200 ELSE 0, << Issue(NumIds + 1) >>)
    /\ effects = Effects(IF ok THEN <<>> ELSE << Log("error", "alertFail") >>,
                         <<>>, << Params(2, 0) >>)

\* -------------------------------------------------------------- actions
\* Timers that are still followed: the poll timer until MaxCycles invocations
\* have started, the heartbeat timer until MaxBeats firings.
PollLive == pcBot = "running" /\ started < MaxCycles

\* Variant in which the heartbeat timer is followed only while no invocation
\* of checkRepos is awaiting a network call.
BeatLiveWhenIdle ==
  /\ pcBot = "running"
  /\ beats < MaxBeats
  /\ \A c \in Cycles : pc[c] \in {"idle", "done"}

BeatLive == pcBot = "running" /\ beats < MaxBeats

\* A millisecond passes while startBot awaits its start message.
StartDelay ==
  /\ pcBot = "starting"
  /\ now = 0
  /\ now' = now + 1
  /\ event' = Event("tick", 0, 0, 0, <<>>)
  /\ effects' = NoEffects
  /\ UNCHANGED << lastChecked, seenIssues, pcBot >>
  /\ UNCHANGED timerVars
  /\ UNCHANGED cycleVars

\* Time passes until the poll timer's deadline (what the event loop runs
\* between two deadlines is stamped with the earlier one).
WaitPoll ==
  /\ PollLive
  /\ now < nextPoll
  /\ now' = nextPoll
  /\ event' = Event("tick", 0, 0, 0, <<>>)
  /\ effects' = NoEffects
  /\ UNCHANGED << lastChecked, seenIssues, pcBot >>
  /\ UNCHANGED timerVars
  /\ UNCHANGED cycleVars

\* Time passes until the heartbeat timer's deadline, once the followed polls
\* are over.
WaitBeat ==
  /\ BeatLive
  /\ ~PollLive
  /\ now < nextBeat
  /\ now' = nextBeat
  /\ event' = Event("tick", 0, 0, 0, <<>>)
  /\ effects' = NoEffects
  /\ UNCHANGED << lastChecked, seenIssues, pcBot >>
  /\ UNCHANGED timerVars
  /\ UNCHANGED cycleVars

\* startBot resumes after the start message, in the millisecond of module
\* load or later (a delivery failure is written to the console): both timers
\* are armed and the first scan cycle is run at once.
StartBot(ok) ==
  /\ pcBot = "starting"
  /\ pcBot' = "running"
  /\ nextPoll' = now + POLL_INTERVAL
  /\ nextBeat' = now + HEARTBEAT_INTERVAL
  /\ started' = 1
  /\ event' = Event("started", 1, 0, IF ok THEN 200 ELSE 0, <<>>)
  /\ CheckRepos(1, IF ok THEN <<>> ELSE << Log("console", "logFail") >>)
  /\ UNCHANGED << beats, beatsPending >>
  /\ UNCHANGED clockVars

\* The poll timer fires checkRepos.
PollFire ==
  /\ PollLive
  /\ now = nextPoll
  /\ nextPoll' = nextPoll + POLL_INTERVAL
  /\ started' = started + 1
  /\ event' = Event("poll", started + 1, 0, 0, <<>>)
  /\ CheckRepos(started + 1, <<>>)
  /\ UNCHANGED << pcBot, nextBeat, beats, beatsPending >>
  /\ UNCHANGED clockVars

\* Variant of the heartbeat that also empties the memory.
HeartbeatFirePrunes ==
  /\ BeatLive
  /\ now = nextBeat
  /\ nextBeat' = nextBeat + HEARTBEAT_INTERVAL
  /\ beats' = beats + 1
  /\ beatsPending' = beatsPending + 1
  /\ event' = Event("heartbeat", 0, 0, 0, <<>>)
  /\ effects' = Effects(<<>>, << SystemPost("INFO") >>, <<>>)
  /\ seenIssues' = {}
  /\ UNCHANGED << lastChecked, pcBot, nextPoll, started >>
  /\ UNCHANGED clockVars
  /\ UNCHANGED cycleVars

\* The heartbeat timer fires: one INFO system alert is posted.
HeartbeatFire ==
  /\ BeatLive
  /\ now = nextBeat
  /\ nextBeat' = nextBeat + HEARTBEAT_INTERVAL
  /\ beats' = beats + 1
  /\ beatsPending' = beatsPending + 1
  /\ event' = Event("heartbeat", 0, 0, 0, <<>>)
  /\ effects' = Effects(<<>>, << SystemPost("INFO") >>, <<>>)
  /\ UNCHANGED << lastChecked, seenIssues, pcBot, nextPoll, started >>
  /\ UNCHANGED clockVars
  /\ UNCHANGED cycleVars

\* The heartbeat's webhook call returns; a failure is written to the console.
HeartbeatReturn(ok) ==
  /\ beatsPending > 0
  /\ beatsPending' = beatsPending - 1
  /\ event' = Event("heartbeatReturn", 0, 0, IF ok THEN 200 ELSE 0, <<>>)
  /\ effects' = Effects(IF ok THEN <<>> ELSE << Log("console", "logFail") >>, <<>>, <<>>)
  /\ UNCHANGED << lastChecked, seenIssues, pcBot, nextPoll, nextBeat, started, beats >>
  /\ UNCHANGED clockVars
  /\ UNCHANGED cycleVars

\* axios.get resolves with `data`: filter, then alert the first new issue, or
\* with nothing new run the pruning check and return to checkRepos.
FetchOk(c, data) ==
  /\ pc[c] = "fetch"
  /\ event' = Event("fetchOk", c, target[c], 200, data)
  /\ LET fresh == FilterNew(data, seenIssues)
     IN  IF Len(fresh) > 0
         THEN /\ newIssues' = [newIssues EXCEPT ![c] = fresh]
              /\ cursor' = [cursor EXCEPT ![c] = 1]
              /\ seenIssues' = seenIssues \cup {fresh[1].id}
              /\ pc' = [pc EXCEPT ![c] = "alert"]
              /\ request' = [request EXCEPT ![c] = <<>>]
              /\ effects' = Effects(<< Log("info", "found") >>,
                                    << IssuePost(fresh[1], target[c]) >>, <<>>)
              /\ UNCHANGED << lastChecked, currentScanTime, target, lastFetchAt,
                              fetched, writes >>
         ELSE /\ seenIssues' = PruneMemory(seenIssues)
              /\ Continue(c, PruneLogs(seenIssues), <<>>)
  /\ UNCHANGED clockVars
  /\ UNCHANGED << pcBot >>
  /\ UNCHANGED timerVars
\* Variant of the loop that runs the pruning check after every alert.
AlertReturnChecksEach(c, ok) ==
  /\ pc[c] = "alert"
  /\ event' = Event("alertReturn", c, target[c], IF ok THEN 200 ELSE 0,
                    << newIssues[c][cursor[c]] >>)
  /\ LET failLog == IF ok THEN <<>> ELSE << Log("error", "alertFail") >>
     IN  IF cursor[c] < Len(newIssues[c])
         THEN /\ cursor' = [cursor EXCEPT ![c] = @ + 1]
              /\ seenIssues' = PruneMemory(seenIssues) \cup {newIssues[c][cursor[c] + 1].id}
              /\ effects' = Effects(failLog \o PruneLogs(seenIssues),
                                    << IssuePost(newIssues[c][cursor[c] + 1], target[c]) >>,
                                    <<>>)
              /\ UNCHANGED << lastChecked, pc, currentScanTime, target, request,
                              newIssues, lastFetchAt, fetched, writes >>
         ELSE /\ seenIssues' = PruneMemory(seenIssues)
              /\ Continue(c, failLog \o PruneLogs(seenIssues), <<>>)
  /\ UNCHANGED clockVars
  /\ UNCHANGED << pcBot >>
  /\ UNCHANGED timerVars

\* Variant of the loop that sends the alert of an issue again when its
\* delivery has failed.
AlertReturnRetry(c, ok) ==
  /\ pc[c] = "alert"
  /\ event' = Event("alertReturn", c, target[c], IF ok THEN 200 ELSE 0,
                    << newIssues[c][cursor[c]] >>)
  /\ LET failLog == IF ok THEN <<>> ELSE << Log("error", "alertFail") >>
     IN  IF ~ok
         THEN /\ effects' = Effects(failLog,
                                    << IssuePost(newIssues[c][cursor[c]], target[c]) >>,
                                    <<>>)
              /\ UNCHANGED << lastChecked, seenIssues, pc, currentScanTime, target,
                              request, newIssues, cursor, lastFetchAt, fetched, writes >>
         ELSE IF cursor[c] < Len(newIssues[c])
         THEN /\ cursor' = [cursor EXCEPT ![c] = @ + 1]
              /\ seenIssues' = seenIssues \cup {newIssues[c][cursor[c] + 1].id}
              /\ effects' = Effects(failLog,
                                    << IssuePost(newIssues[c][cursor[c] + 1], target[c]) >>,
                                    <<>>)
              /\ UNCHANGED << lastChecked, pc, currentScanTime, target, request,
                              newIssues, lastFetchAt, fetched, writes >>
         ELSE /\ seenIssues' = PruneMemory(seenIssues)
              /\ Continue(c, failLog \o PruneLogs(seenIssues), <<>>)
  /\ UNCHANGED clockVars
  /\ UNCHANGED << pcBot >>
  /\ UNCHANGED timerVars

\* sendIssueAlert returns for the issue under the cursor (a delivery failure
\* is logged inside it): the loop marks and alerts the next new issue, or
\* ends with the pruning check.
AlertReturn(c, ok) ==
  /\ pc[c] = "alert"
  /\ event' = Event("alertReturn", c, target[c], IF ok THEN 200 ELSE 0,
                    << newIssues[c][cursor[c]] >>)
  /\ LET failLog == IF ok THEN <<>> ELSE << Log("error", "alertFail") >>
     IN  IF cursor[c] < Len(newIssues[c])
         THEN /\ cursor' = [cursor EXCEPT ![c] = @ + 1]
              /\ seenIssues' = seenIssues \cup {newIssues[c][cursor[c] + 1].id}
              /\ effects' = Effects(failLog,
                                    << IssuePost(newIssues[c][cursor[c] + 1], target[c]) >>,
                                    <<>>)
              /\ UNCHANGED << lastChecked, pc, currentScanTime, target, request,
                              newIssues, lastFetchAt, fetched, writes >>
         ELSE /\ seenIssues' = PruneMemory(seenIssues)
              /\ Continue(c, failLog \o PruneLogs(seenIssues), <<>>)
  /\ UNCHANGED clockVars
  /\ UNCHANGED << pcBot >>
  /\ UNCHANGED timerVars
\* Variant of the catch block that does not await the escalated alert.
FetchFailNoAwait(c, error) ==
  /\ pc[c] = "fetch"
  /\ event' = Event("fetchError", c, target[c], error.status, request[c])
  /\ Continue(c, << Log("error", "fetchError") >>,
              IF ShouldEscalate(error) THEN << SystemPost("ERROR") >> ELSE <<>>)
  /\ UNCHANGED seenIssues
  /\ UNCHANGED clockVars
  /\ UNCHANGED << pcBot >>
  /\ UNCHANGED timerVars

\* axios.get rejects: the catch block logs the error and escalates it to the
\* chat webhook when the error carries a response whose status is not 404.
FetchFail(c, error) ==
  /\ pc[c] = "fetch"
  /\ event' = Event("fetchError", c, target[c], error.status, request[c])
  /\ IF ShouldEscalate(error)
     THEN /\ pc' = [pc EXCEPT ![c] = "escalate"]
          /\ request' = [request EXCEPT ![c] = <<>>]
          /\ effects' = Effects(<< Log("error", "fetchError") >>,
                                << SystemPost("ERROR") >>, <<>>)
          /\ UNCHANGED << lastChecked, currentScanTime, target, newIssues, cursor,
                          lastFetchAt, fetched, writes >>
     ELSE Continue(c, << Log("error", "fetchError") >>, <<>>)
  /\ UNCHANGED seenIssues
  /\ UNCHANGED clockVars
  /\ UNCHANGED << pcBot >>
  /\ UNCHANGED timerVars

\* Variant in which sendSystemLogToDiscord lets a delivery failure escape:
\* the rejection leaves fetchIssuesForRepo and ends checkRepos.
EscalateReturnThrows(c, ok) ==
  /\ pc[c] = "escalate"
  /\ event' = Event("escalateReturn", c, target[c], IF ok THEN 200 ELSE 0, <<>>)
  /\ IF ok
     THEN Continue(c, <<>>, <<>>)
     ELSE /\ pc' = [pc EXCEPT ![c] = "failed"]
          /\ effects' = NoEffects
          /\ UNCHANGED << lastChecked, currentScanTime, target, request, newIssues,
                          cursor, lastFetchAt, fetched, writes >>
  /\ UNCHANGED seenIssues
  /\ UNCHANGED clockVars
  /\ UNCHANGED << pcBot >>
  /\ UNCHANGED timerVars

\* The escalated system alert returns (a failure is written to the console).
EscalateReturn(c, ok) ==
  /\ pc[c] = "escalate"
  /\ event' = Event("escalateReturn", c, target[c], IF ok THEN 200 ELSE 0, <<>>)
  /\ Continue(c, IF ok THEN <<>> ELSE << Log("console", "logFail") >>, <<>>)
  /\ UNCHANGED seenIssues
  /\ UNCHANGED clockVars
  /\ UNCHANGED << pcBot >>
  /\ UNCHANGED timerVars

\* The scan cycle: startup, the poll timer and the handlers of checkRepos.
ScanNext ==
  \/ StartDelay
  \/ \E ok \in BOOLEAN : StartBot(ok)
  \/ WaitPoll
  \/ PollFire
  \/ \E c \in Cycles, data \in Responses : FetchOk(c, data)
  \/ \E c \in Cycles, ok \in BOOLEAN : AlertReturn(c, ok)
  \/ \E c \in Cycles, error \in FetchErrors : FetchFail(c, error)
  \/ \E c \in Cycles, ok \in BOOLEAN : EscalateReturn(c, ok)

\* The heartbeat.
BeatNext ==
  \/ WaitBeat
  \/ HeartbeatFire
  \/ \E ok \in BOOLEAN : HeartbeatReturn(ok)

\* The whole program.
Next == ScanNext \/ BeatNext

Spec == Init /\ [][Next]_vars

\* The scan cycle without the heartbeat, which shares with it the clock only.
ScanSpec == Init /\ [][ScanNext]_vars

\* What the event loop guarantees: time passes and a timer whose deadline has
\* come runs its callback.  Nothing guarantees that a network call returns
\* (the calls are made without a timeout).
PollFairness ==
  /\ WF_vars(StartDelay)
  /\ WF_vars(WaitPoll)
  /\ WF_vars(PollFire)

BeatFairness ==
  /\ WF_vars(WaitBeat)
  /\ WF_vars(HeartbeatFire)

TimerFairness == PollFairness /\ BeatFairness

\* The scan cycle with its timer guaranteed to fire.
FairScanSpec == ScanSpec /\ PollFairness

\* Every other invocation of checkRepos is over (or has not started).
Alone(c) == \A d \in Cycles \ {c} : pc[d] \in {"idle", "done"}

\* The program on a network that may fail for good: a call of the scan cycle
\* that is still pending when the poll timer starts the next invocation never
\* returns, and neither do the calls of the invocations started after it.
\* The timers go on firing.
StallNext ==
  \/ StartDelay
  \/ \E ok \in BOOLEAN : StartBot(ok)
  \/ WaitPoll
  \/ PollFire
  \/ \E c \in {d \in Cycles : Alone(d)}, data \in Responses : FetchOk(c, data)
  \/ \E c \in {d \in Cycles : Alone(d)}, ok \in BOOLEAN : AlertReturn(c, ok)
  \/ \E c \in {d \in Cycles : Alone(d)}, error \in FetchErrors : FetchFail(c, error)
  \/ \E c \in {d \in Cycles : Alone(d)}, ok \in BOOLEAN : EscalateReturn(c, ok)
  \/ BeatNext

StallSpec == Init /\ [][StallNext]_vars /\ TimerFairness

\* No invocation of checkRepos is under way.
Quiet == \A c \in Cycles : pc[c] \in {"idle", "done"}

\* The scan cycle in its ordinary regime: every cycle is over before the poll
\* timer fires again.
AgedNext ==
  \/ Quiet /\ WaitPoll
  \/ Quiet /\ PollFire
  \/ \E c \in Cycles, data \in Responses : FetchOk(c, data)
  \/ \E c \in Cycles, ok \in BOOLEAN : AlertReturn(c, ok)
  \/ \E c \in Cycles, error \in FetchErrors : FetchFail(c, error)
  \/ \E c \in Cycles, ok \in BOOLEAN : EscalateReturn(c, ok)

\* The scan cycle of a process whose set is at the pruning limit.
AgedSpec == InitAged /\ [][AgedNext]_vars

\* One invocation of checkRepos against a tracker whose issues have any
\* creation and update times.
ClassifyNext ==
  \/ StartDelay
  \/ \E ok \in BOOLEAN : StartBot(ok)
  \/ \E c \in Cycles, data \in StampedResponses : FetchOk(c, data)
  \/ \E c \in Cycles, ok \in BOOLEAN : AlertReturn(c, ok)

ClassifySpec == Init /\ [][ClassifyNext]_vars

\* ------------------------------------------------------------ properties
TypeOK ==
  /\ now \in Nat
  /\ lastChecked \in Nat
  /\ pcBot \in {"starting", "running"}
  /\ started \in 0..MaxCycles
  /\ beats \in 0..MaxBeats
  /\ pc \in [Cycles -> {"idle", "fetch", "alert", "escalate", "done"}]
  /\ \A c \in Cycles : cursor[c] \in 0..Len(newIssues[c])

IssuePostsIn(e) == {j \in 1..Len(e.posts) : e.posts[j].kind = "issue"}

\* C1: once an identifier is in the Seen-Issue Set (and the set has not been
\* cleared since), no issue alert is dispatched for it again.
C1_NoDuplicateAlerts ==
  [][\A j \in IssuePostsIn(effects') : effects'.posts[j].id \notin seenIssues]_vars

\* C2: every assignment to the watermark stores a value no smaller than the
\* one it replaces, and the watermark never drops below its initial value.
C2_WatermarkMonotonic ==
  [][lastChecked' >= lastChecked /\ lastChecked' >= 0]_vars

Completes(c) == pc[c] # "done" /\ pc'[c] = "done"
AllTargets == [t \in 1..NumTargets |-> t]

\* C3: when a scan cycle completes, the watermark is the timestamp that cycle
\* captured before its first fetch; the watermark is written exactly once per
\* completed cycle, only after every target has been processed, and by
\* nothing else.
C3_WatermarkIsScanStart ==
  [][ /\ \A c \in Cycles :
           Completes(c) => /\ lastChecked' = currentScanTime[c]
                           /\ target[c] = NumTargets
                           /\ fetched[c] = AllTargets
      /\ \A c \in Cycles : writes'[c] = IF pc'[c] = "done" THEN 1 ELSE 0
      /\ lastChecked' # lastChecked => \E c \in Cycles : Completes(c) ]_vars

\* A cycle has just completed, later than it started, and the watermark is
\* its start time.
C3_Witness ==
  \E c \in Cycles :
    /\ event.cycle = c
    /\ pc[c] = "done"
    /\ now > currentScanTime[c]
    /\ lastChecked = currentScanTime[c]

\* C4: the since value of every fetch is no later than the time at which the
\* previous fetch of the same target was issued (module load for the first).
C4_NoCoverageGap ==
  [][\A j \in 1..Len(effects'.gets) :
       effects'.gets[j].since <= lastFetchAt[effects'.gets[j].target]]_vars

\* A fetch has just been issued whose since value is a scan-start time stored
\* by a completed cycle, after an earlier fetch of the same target.
C4_Witness ==
  /\ Len(effects.gets) = 1
  /\ effects.gets[1].since > 0
  /\ \E c \in Cycles : pc[c] = "done" /\ effects.gets[1].since = currentScanTime[c]
  /\ lastFetchAt[effects.gets[1].target] > effects.gets[1].since

\* C5: a record with the pull_request marker is never alerted, never kept as
\* a new issue, and its identifier is never put in the Seen-Issue Set.
C5_PullRequestsIgnored ==
  /\ \A i \in seenIssues \cap IssueIds : ~Issue(i).pull_request
  /\ \A j \in IssuePostsIn(effects) : ~Issue(effects.posts[j].id).pull_request
  /\ \A c \in Cycles : \A j \in 1..Len(newIssues[c]) : ~newIssues[c][j].pull_request

\* A response holding a pull request and an unseen issue has just been
\* processed: the issue is alerted.
C5_Witness ==
  /\ event.type = "fetchOk"
  /\ \E j \in 1..Len(event.data) : event.data[j].pull_request
  /\ IssuePostsIn(effects) # {}

\* C6: every fetch failure other than a 404 writes exactly one error log entry
\* and sends exactly one ERROR system alert.
C6_FailuresEscalated ==
  (event.type = "fetchError" /\ event.status # 404) =>
     /\ effects.logs = << Log("error", "fetchError") >>
     /\ effects.posts = << SystemPost("ERROR") >>

\* C7: a fetch that fails with 404 writes exactly one error log entry, sends
\* nothing to the chat webhook, ends the processing of that target and leaves
\* the Seen-Issue Set unchanged.
C7_NotFoundIsQuiet ==
  [][(event'.type = "fetchError" /\ event'.status = 404) =>
       /\ pc[event'.cycle] = "fetch"
       /\ effects'.logs = << Log("error", "fetchError") >>
       /\ effects'.posts = <<>>
       /\ pc'[event'.cycle] \in {"fetch", "done"}
       /\ fetched'[event'.cycle] # fetched[event'.cycle] \/ pc'[event'.cycle] = "done"
       /\ seenIssues' = seenIssues]_vars

\* A 404 has just been handled while the Seen-Issue Set held identifiers.
C7_Witness ==
  /\ event.type = "fetchError"
  /\ event.status = 404
  /\ effects.posts = <<>>
  /\ seenIssues # {}

FailureEvent ==
  \/ event.type = "fetchError"
  \/ event.type \in {"alertReturn", "escalateReturn"} /\ event.status = 0

Completed(c) == pc[c] = "done" /\ writes[c] = 1 /\ fetched[c] = AllTargets

\* Invocation c has left the target of the last event for the next one, or
\* has completed after the last target.
MovedOn(c) ==
  \/ pc[c] = "fetch" /\ target[c] = event.target + 1
  \/ event.target = NumTargets /\ Completed(c)

\* Nothing is left to run: every followed invocation has started and none
\* is waiting for a network call.
Quiescent ==
  /\ pcBot = "running"
  /\ started = MaxCycles
  /\ \A c \in Cycles : pc[c] \notin {"fetch", "alert", "escalate"}

\* C8: whatever fails (a fetch, the delivery of an issue alert, the delivery
\* of a system alert), the invocation goes on with the same target or the
\* next one; an invocation ends in no other way than having fetched every
\* target and stored the watermark, and later invocations still start.
C8_FailuresContained ==
  /\ \A c \in Cycles : pc[c] \in {"idle", "fetch", "alert", "escalate", "done"}
  /\ \A c \in Cycles : pc[c] = "done" => Completed(c)
  /\ \A c \in Cycles : c <= started <=> pc[c] # "idle"
  /\ (FailureEvent /\ event.type = "fetchError") =>
       \/ pc[event.cycle] = "escalate" /\ target[event.cycle] = event.target
       \/ MovedOn(event.cycle)
  /\ (FailureEvent /\ event.type = "alertReturn") =>
       \/ pc[event.cycle] = "alert" /\ target[event.cycle] = event.target
       \/ MovedOn(event.cycle)
  /\ (FailureEvent /\ event.type = "escalateReturn") => MovedOn(event.cycle)
  /\ Quiescent => \A c \in Cycles : Completed(c)

\* The delivery of an escalated ERROR alert has just failed, for the last
\* target of the last invocation, and every invocation has completed.
C8_Witness ==
  /\ event.type = "escalateReturn"
  /\ event.status = 0
  /\ event.cycle = MaxCycles
  /\ \A c \in Cycles : Completed(c)

\* The pruning check of invocation c runs in this step.
CheckRuns(c) ==
  /\ event'.cycle = c
  /\ event'.type \in {"fetchOk", "alertReturn"}
  /\ pc'[c] # "alert"

\* C9: the pruning check empties the set when its size is above SEEN_LIMIT
\* and leaves it unchanged otherwise, so that the set holds at most SEEN_LIMIT
\* identifiers when a successfully fetched target has been processed.
C9_ResetPolicy ==
  [][\A c \in Cycles :
       CheckRuns(c) =>
         /\ Cardinality(seenIssues) > SEEN_LIMIT => seenIssues' = {}
         /\ Cardinality(seenIssues) <= SEEN_LIMIT => seenIssues' = seenIssues
         /\ Cardinality(seenIssues') <= SEEN_LIMIT]_vars

\* The set has just been cleared by the pruning check.
C9_Witness ==
  /\ \E j \in 1..Len(effects.logs) : effects.logs[j] = Log("info", "cleared")
  /\ seenIssues = {}

\* C10: of a fetched response exactly the records that are no pull request
\* and whose identifier is not in the Seen-Issue Set at filter time are
\* alerted, one alert each in response order; each alerted identifier enters
\* the set with its alert and leaves it only when the set is cleared.
C10_AlertCompleteness ==
  [][\A c \in Cycles :
       /\ (event'.type = "fetchOk" /\ event'.cycle = c) =>
            LET expected == SelectSeq(event'.data,
                                      LAMBDA r : ~r.pull_request /\ r.id \notin seenIssues)
            IN  IF expected = <<>>
                THEN pc'[c] # "alert" /\ IssuePostsIn(effects') = {}
                ELSE pc'[c] = "alert" /\ newIssues'[c] = expected /\ cursor'[c] = 1
       /\ (event'.cycle = c /\ pc'[c] = "alert") =>
            /\ effects'.posts = << IssuePost(newIssues'[c][cursor'[c]], target'[c]) >>
            /\ newIssues'[c][cursor'[c]].id \in seenIssues'
            /\ pc[c] = "alert" => newIssues'[c] = newIssues[c] /\ cursor'[c] = cursor[c] + 1
       /\ (event'.cycle = c /\ pc'[c] # "alert") => IssuePostsIn(effects') = {}
       /\ (pc[c] = "alert" /\ pc'[c] # "alert") => cursor[c] = Len(newIssues[c])
       /\ seenIssues \subseteq seenIssues' \/ seenIssues' = {} ]_vars

\* The last of several new issues of one target has been alerted: all of them
\* are marked seen.
C10_Witness ==
  \E c \in Cycles :
    /\ pc[c] = "alert"
    /\ event.cycle = c
    /\ Len(newIssues[c]) >= 2
    /\ cursor[c] = Len(newIssues[c])
    /\ \A j \in 1..Len(newIssues[c]) : newIssues[c][j].id \in seenIssues

\* updated_at minus created_at of a record, in ms.
Gap(r) == (r.updated_at.s - r.created_at.s) * 1000 + (r.updated_at.ms - r.created_at.ms)

\* C11: the alert of an issue is framed as brand new exactly when its
\* updated_at is less than 120000 ms after its created_at, and as an update
\* exactly when the gap is 120000 ms or more; a gap of 595000 ms (created ten
\* minutes ago, updated five seconds ago) is an update.
C11_Classification ==
  \A c \in Cycles :
    (event.cycle = c /\ pc[c] = "alert") =>
      LET r == newIssues[c][cursor[c]]
          p == effects.posts[1]
      IN  /\ p.kind = "issue" /\ p.id = r.id
          /\ p.title \in {"new", "update"}
          /\ p.title = "new" <=> Gap(r) < 120000
          /\ p.title = "update" <=> Gap(r) >= 120000
          /\ p.color = IF Gap(r) < 120000 THEN 5763719 ELSE 16776960
          /\ Gap(r) = 595000 => p.title = "update"

\* An issue updated exactly 120000 ms after its creation has just been
\* alerted, as an update.
C11_Witness ==
  \E c \in Cycles :
    /\ event.cycle = c
    /\ pc[c] = "alert"
    /\ Gap(newIssues[c][cursor[c]]) = 120000
    /\ effects.posts[1].title = "update"

\* C12: when the webhook call of an issue alert fails, exactly one error entry
\* is logged, the issue is not posted again, nothing is escalated as a system
\* alert, and the loop goes on: the next new issue of the target is marked
\* seen and alerted, and after the last one the target is left.
C12_SingleAttempt ==
  [][\A c \in Cycles :
       (event'.type = "alertReturn" /\ event'.cycle = c /\ event'.status = 0) =>
         LET failed == newIssues[c][cursor[c]]
         IN  /\ pc[c] = "alert"
             /\ Len(SelectSeq(effects'.logs,
                              LAMBDA l : l = Log("error", "alertFail"))) = 1
             /\ \A j \in 1..Len(effects'.posts) :
                  /\ effects'.posts[j].kind = "issue"
                  /\ effects'.posts[j].id # failed.id
             /\ cursor[c] < Len(newIssues[c]) =>
                  /\ pc'[c] = "alert"
                  /\ newIssues'[c] = newIssues[c]
                  /\ cursor'[c] = cursor[c] + 1
                  /\ newIssues[c][cursor[c] + 1].id \in seenIssues'
                  /\ effects'.posts =
                       << IssuePost(newIssues[c][cursor[c] + 1], target[c]) >>
             /\ cursor[c] = Len(newIssues[c]) =>
                  /\ pc'[c] \in {"fetch", "done"}
                  /\ effects'.posts = <<>> ]_vars

\* The delivery of the first of two new issues has just failed: the failure
\* is logged and the second issue is marked seen and alerted.
C12_Witness ==
  \E c \in Cycles :
    /\ event.type = "alertReturn"
    /\ event.cycle = c
    /\ event.status = 0
    /\ pc[c] = "alert"
    /\ cursor[c] = 2
    /\ effects.logs = << Log("error", "alertFail") >>
    /\ effects.posts = << IssuePost(newIssues[c][2], target[c]) >>
    /\ newIssues[c][2].id \in seenIssues

\* C13: the first invocation of checkRepos precedes the first callback of the
\* poll timer, and it eventually takes place.
C13_InitialScan ==
  /\ [][event'.type = "poll" => started >= 1]_vars
  /\ <>(started >= 1)

\* C14: a heartbeat (its firing and the return of its webhook call) leaves
\* the watermark, the Seen-Issue Set and every invocation of checkRepos as
\* they are, whatever the invocations are waiting for, and what it posts does
\* not depend on them.
C14_HeartbeatFrame ==
  [][event'.type \in {"heartbeat", "heartbeatReturn"} =>
       /\ lastChecked' = lastChecked
       /\ seenIssues' = seenIssues
       /\ UNCHANGED cycleVars
       /\ event'.type = "heartbeat" =>
            effects' = Effects(<<>>, << SystemPost("INFO") >>, <<>>)
       /\ event'.type = "heartbeatReturn" =>
            /\ effects'.posts = <<>>
            /\ effects'.gets = <<>> ]_vars

\* The heartbeat has just fired while an invocation is suspended between two
\* issue alerts, with a stored watermark and a non-empty set.
C14_Witness ==
  /\ event.type = "heartbeat"
  /\ lastChecked > 0
  /\ seenIssues # {}
  /\ \E c \in Cycles : pc[c] = "alert" /\ cursor[c] < Len(newIssues[c])

\* An invocation of checkRepos is waiting for a fetch or an issue alert.
Stalled == \E c \in Cycles : pc[c] \in {"fetch", "alert"}

\* C15: whether or not the network calls of the scan cycles ever return, the
\* heartbeat timer fires at every multiple of HEARTBEAT_INTERVAL after the
\* start, each firing posts one INFO system alert, and every followed firing
\* eventually happens.
C15_HeartbeatLive ==
  /\ [][beats' # beats =>
          /\ beats' = beats + 1
          /\ now' + started' * POLL_INTERVAL = nextPoll' + beats' * HEARTBEAT_INTERVAL
          /\ effects'.posts = << SystemPost("INFO") >>]_vars
  /\ \A n \in 0..(MaxBeats - 1) :
       (pcBot = "running" /\ Stalled /\ beats = n) ~> (beats = n + 1)

\* The heartbeat has just fired while one invocation is still waiting for an
\* issue alert and a later one for a fetch.
C15_Witness ==
  /\ event.type = "heartbeat"
  /\ beats >= 1
  /\ effects.posts = << SystemPost("INFO") >>
  /\ \E c, d \in Cycles : c < d /\ pc[c] = "alert" /\ pc[d] = "fetch"

\* Invocation c is inside the alert loop of a target: its records have been
\* filtered and the last of them is not yet marked seen.
MidSequence(c) == pc[c] = "alert" /\ cursor[c] < Len(newIssues[c])

\* C16: while an invocation is between the filtering of a target's records
\* and the marking of the last of them, no step of another task changes the
\* Seen-Issue Set, and no alert is posted for an identifier that is in the set.
C16_NoIntermediateMutation ==
  [][ /\ \A c \in Cycles :
           (MidSequence(c) /\ event'.cycle # c) => seenIssues' = seenIssues
      /\ \A c \in Cycles :
           (MidSequence(c) /\ event'.cycle = c) =>
              \A j \in IssuePostsIn(effects') : effects'.posts[j].id \notin seenIssues ]_vars

Pending(c) == pc[c] \in {"fetch", "alert", "escalate"}
Returns == {"fetchOk", "fetchError", "alertReturn", "escalateReturn"}
Calls(e) == Len(e.posts) + Len(e.gets)

\* C17: an invocation has at most one network call outstanding (each of its
\* handlers consumes the return of its one pending call and issues at most
\* one call); it fetches the targets in registry order, each once, and the
\* fetch of target k+1 is issued by the handler of the return of target k's
\* last call: its fetch, the alert of its last new issue, or its escalation.
C17_SequentialTargets ==
  [][\A c \in Cycles :
       event'.cycle = c =>
         /\ event'.type \in Returns \cup {"started", "poll"}
         /\ event'.type \in Returns => Pending(c) /\ event'.target = target[c]
         /\ event'.type \in {"started", "poll"} => pc[c] = "idle"
         /\ Calls(effects') <= 1
         /\ Calls(effects') = 1 <=> Pending(c)'
         /\ pc'[c] = "done" => fetched'[c] = AllTargets
         /\ IF effects'.gets # <<>>
            THEN LET t == effects'.gets[1].target
                 IN  /\ pc'[c] = "fetch"
                     /\ t = Len(fetched[c]) + 1
                     /\ fetched'[c] = Append(fetched[c], t)
                     /\ target'[c] = t
                     /\ effects'.gets[1].labels = TARGETS[t].labels
                     /\ t > 1 => /\ event'.type \in Returns
                                 /\ target[c] = t - 1
                                 /\ cursor[c] = Len(newIssues[c])
            ELSE fetched'[c] = fetched[c] /\ target'[c] = target[c] ]_vars

\* The fetch of the second target has just been issued by the handler of the
\* return of the last alert of the first target.
C17_Witness ==
  \E c \in Cycles :
    /\ event.cycle = c
    /\ event.type = "alertReturn"
    /\ event.target = 1
    /\ pc[c] = "fetch"
    /\ fetched[c] = << 1, 2 >>
    /\ effects.gets = << Params(2, lastChecked) >>

\* C18: the pruning check follows every marked and alerted issue, so that
\* the Seen-Issue Set never holds more than SEEN_LIMIT + 1 identifiers.
C18_SizeBound == Cardinality(seenIssues) <= SEEN_LIMIT + 1

\* C18, as the code has it: the pruning check runs once per fetched target,
\* after the alert loop.  A step that marks and alerts an issue adds its
\* identifier and clears nothing, whatever the size of the set; only the step
\* that leaves the target prunes.  With invocations that do not overlap the
\* set holds at most SEEN_LIMIT identifiers plus the new issues of one response.
C18_ResetAfterTarget ==
  [][ /\ \A c \in Cycles :
           (event'.cycle = c /\ pc'[c] = "alert") =>
              /\ seenIssues' = seenIssues \cup {newIssues'[c][cursor'[c]].id}
              /\ \A j \in 1..Len(effects'.logs) : effects'.logs[j] # Log("info", "cleared")
      /\ (seenIssues' = {} /\ seenIssues # {}) =>
           /\ CheckRuns(event'.cycle)
           /\ cursor[event'.cycle] = Len(newIssues[event'.cycle])
      /\ Cardinality(seenIssues') <= SEEN_LIMIT + MaxResp ]_vars

\* The second new issue of a target has just been marked and alerted: the set
\* holds SEEN_LIMIT + 2 identifiers.
C18_Witness ==
  \E c \in Cycles :
    /\ event.cycle = c
    /\ pc[c] = "alert"
    /\ cursor[c] = 2
    /\ Cardinality(seenIssues) = SEEN_LIMIT + 2

\* The delivery of the alert of issue i has just failed.
FailedNow(i) ==
  /\ event.type = "alertReturn"
  /\ event.status = 0
  /\ event.data[1].id = i

\* An alert of issue i has just been posted.
PostsNow(i) == \E j \in IssuePostsIn(effects) : effects.posts[j].id = i

\* C19: an issue whose alert could not be delivered is in the Seen-Issue Set,
\* and from then on no alert is posted for it again (the set is never cleared
\* here: it stays far below SEEN_LIMIT).
C19_UndeliveredIsLost ==
  \A i \in IssueIds :
    [](FailedNow(i) => (i \in seenIssues /\ [](~PostsNow(i))))

\* The values the watermark can take: the load time and the scan-start times.
ScanTimes == {d + k * POLL_INTERVAL : d \in {0, 1}, k \in 0..(MaxCycles - 1)}

\* The fetch of target t that asked for the changes since s has just failed,
\* in an invocation that started later than s.
FetchFailedNow(t, s) ==
  /\ event.type = "fetchError"
  /\ event.target = t
  /\ event.data[1].since = s
  /\ currentScanTime[event.cycle] > s

\* A fetch of target t has just been issued with a since value of s or less.
RequeriesNow(t, s) ==
  \E j \in 1..Len(effects.gets) :
    effects.gets[j].target = t /\ effects.gets[j].since <= s

\* C20: an invocation that ends with a failed fetch stores its scan-start
\* time all the same, and once a fetch of a target has failed, every later
\* fetch of that target asks for the changes since a later time than the
\* failed one did.
C20_FailedWindowSkipped ==
  /\ [][\A c \in Cycles :
          (Completes(c) /\ event'.type \in {"fetchError", "escalateReturn"}) =>
             lastChecked' = currentScanTime[c]]_vars
  /\ \A t \in 1..NumTargets : \A s \in ScanTimes :
       [](FetchFailedNow(t, s) => [](~RequeriesNow(t, s)))

====
